---- MODULE Spec2Model ----
(***************************************************************************)
(* Model of compare_sf_sharepoint.py: the name normaliser, the similarity  *)
(* scorer and the reconciliation run (exact pass in main, then the three   *)
(* fuzzy passes of find_fuzzy_matches).                                    *)
(*                                                                         *)
(* Names are TLA+ strings over ASCII; a character is a one-character       *)
(* string.  Python's str methods and the regular expressions of the source *)
(* are computed character by character.                                    *)
(***************************************************************************)
EXTENDS Integers, Sequences, FiniteSets, TLC

(***************************************************************************)
(* Characters and str methods.                                             *)
(***************************************************************************)
Ch(s, i) == SubSeq(s, i, i)

CharsOf(s) == {Ch(s, i) : i \in 1..Len(s)}

\* the printable ASCII characters 32..95 and 97..126 in code point order
\* (code point 96 cannot be written in a string of this language)
AsciiLow == " !\"#$%&'()*+,-./0123456789:;<=>?@ABCDEFGHIJKLMNOPQRSTUVWXYZ[\\]^_"

AsciiHigh == "abcdefghijklmnopqrstuvwxyz{|}~"

LowerLetters == "abcdefghijklmnopqrstuvwxyz"

UpperLetters == "ABCDEFGHIJKLMNOPQRSTUVWXYZ"

DigitChars == CharsOf("0123456789")

AlphaChars == CharsOf(LowerLetters) \cup CharsOf(UpperLetters)

\* \s of the re module, str.strip() and str.split(): ASCII whitespace
SpaceChars == {" ", "\t", "\n", "\r", "\f"}

\* \w of the re module (ASCII part)
WordChars == AlphaChars \cup DigitChars \cup {"_"}

AsciiLowChars == CharsOf(AsciiLow)

AsciiHighChars == CharsOf(AsciiHigh)

\* ord(c): the code point of a character
Ord(c) ==
    IF c \in AsciiLowChars
    THEN 31 + (CHOOSE i \in 1..Len(AsciiLow) : Ch(AsciiLow, i) = c)
    ELSE IF c \in AsciiHighChars
    THEN 96 + (CHOOSE i \in 1..Len(AsciiHigh) : Ch(AsciiHigh, i) = c)
    ELSE CASE c = "\t" -> 9 [] c = "\n" -> 10 [] c = "\f" -> 12 [] c = "\r" -> 13

UpperChars == CharsOf(UpperLetters)

LowerChars == CharsOf(LowerLetters)

LowerCh(c) ==
    IF c \in UpperChars
    THEN Ch(LowerLetters, CHOOSE i \in 1..26 : Ch(UpperLetters, i) = c)
    ELSE c

RECURSIVE StrLower(_)
\* str.lower()
StrLower(s) == IF s = "" THEN "" ELSE LowerCh(Head(s)) \o StrLower(Tail(s))

RECURSIVE LStrip(_)
LStrip(s) == IF s # "" /\ Head(s) \in SpaceChars THEN LStrip(Tail(s)) ELSE s

RECURSIVE RStrip(_)
RStrip(s) ==
    IF s # "" /\ Ch(s, Len(s)) \in SpaceChars
    THEN RStrip(SubSeq(s, 1, Len(s) - 1))
    ELSE s

\* str.strip()
StrStrip(s) == RStrip(LStrip(s))

\* str.isdigit()
IsDigitStr(s) == s # "" /\ CharsOf(s) \subseteq DigitChars

RECURSIVE SplitFrom(_, _, _)
\* the words of s from position i on; w is the word being read
SplitFrom(s, i, w) ==
    IF i > Len(s)
    THEN (IF w = "" THEN <<>> ELSE <<w>>)
    ELSE IF Ch(s, i) \in SpaceChars
         THEN (IF w = "" THEN <<>> ELSE <<w>>) \o SplitFrom(s, i + 1, "")
         ELSE SplitFrom(s, i + 1, w \o Ch(s, i))

\* str.split(): the maximal runs of non-whitespace characters, in order
StrSplit(s) == SplitFrom(s, 1, "")

RECURSIVE JoinFrom(_, _)
JoinFrom(ws, k) ==
    IF k > Len(ws) THEN ""
    ELSE IF k = Len(ws) THEN ws[k]
    ELSE ws[k] \o " " \o JoinFrom(ws, k + 1)

\* " ".join(ws)
StrJoin(ws) == JoinFrom(ws, 1)

RECURSIVE StrLessFrom(_, _, _)
StrLessFrom(a, b, i) ==
    IF i > Len(a) THEN i <= Len(b)
    ELSE IF i > Len(b) THEN FALSE
    ELSE IF Ch(a, i) = Ch(b, i) THEN StrLessFrom(a, b, i + 1)
    ELSE Ord(Ch(a, i)) < Ord(Ch(b, i))

\* a < b on str: lexicographic by code point
StrLess(a, b) == StrLessFrom(a, b, 1)

\* min(S) for a set of strings
StrMin(S) == CHOOSE x \in S : \A y \in S \ {x} : StrLess(x, y)

RECURSIVE Sorted(_), SortedAfter(_, _)
\* sorted(S) with its first element m
SortedAfter(S, m) == <<m>> \o Sorted(S \ {m})

\* sorted(S) for a set of strings
Sorted(S) == IF S = {} THEN <<>> ELSE SortedAfter(S, StrMin(S))

SetMax(S) == CHOOSE x \in S : \A y \in S : y <= x

SetMin(S) == CHOOSE x \in S : \A y \in S : x <= y

SeqToSet(q) == {q[i] : i \in DOMAIN q}

(***************************************************************************)
(* Regular expressions.  Ends(r, s, i) is the set of positions just after  *)
(* a match of r that starts at position i of s.  Every pattern of the      *)
(* source has, for a given start, its greedy match at the largest end      *)
(* (the only choices are the length of a trailing run), so re.search and   *)
(* re.sub take the leftmost start and the largest end.                     *)
(***************************************************************************)
Cls(cs) == [t |-> "cls", cs |-> cs]

\* a literal word; ic: re.IGNORECASE
Lit(w, ic) == [t |-> "lit", w |-> w, ic |-> ic]

Cat(rs) == [t |-> "cat", rs |-> rs]

Alt(rs) == [t |-> "alt", rs |-> rs]

\* r{lo,hi}; hi = -1 for no upper limit
Rep(r, lo, hi) == [t |-> "rep", r |-> r, lo |-> lo, hi |-> hi]

Plus(r) == Rep(r, 1, -1)

Star(r) == Rep(r, 0, -1)

Opt(r) == Rep(r, 0, 1)

\* $ : the end of the string, or just before a newline that ends it
Eos == [t |-> "eos"]

RECURSIVE Ends(_, _, _), EndsCat(_, _, _, _), EndsRep(_, _, _, _)
Ends(r, s, i) ==
    CASE r.t = "cls" -> IF i <= Len(s) /\ Ch(s, i) \in r.cs THEN {i + 1} ELSE {}
      [] r.t = "lit" ->
            LET e == i + Len(r.w)
                sub == SubSeq(s, i, e - 1)
                first == IF r.ic THEN LowerCh(Ch(s, i)) ELSE Ch(s, i)
            IN  IF /\ e - 1 <= Len(s)
                   /\ first = Head(r.w)
                   /\ (IF r.ic THEN StrLower(sub) ELSE sub) = r.w
                THEN {e} ELSE {}
      [] r.t = "cat" -> EndsCat(r.rs, 1, s, {i})
      [] r.t = "alt" -> UNION {Ends(r.rs[k], s, i) : k \in DOMAIN r.rs}
      [] r.t = "rep" -> EndsRep(r, s, {i}, 0)
      [] r.t = "eos" ->
            IF i = Len(s) + 1 \/ (i = Len(s) /\ Ch(s, i) = "\n") THEN {i} ELSE {}

EndsCat(rs, k, s, P) ==
    IF k > Len(rs) \/ P = {} THEN P
    ELSE EndsCat(rs, k + 1, s, UNION {Ends(rs[k], s, p) : p \in P})

\* P: the positions reached after exactly n repetitions
EndsRep(r, s, P, n) ==
    LET here == IF n >= r.lo THEN P ELSE {}
    IN  IF P = {} \/ n = r.hi THEN here
        ELSE here \cup EndsRep(r, s, UNION {Ends(r.r, s, p) : p \in P}, n + 1)

\* the end of the match of r that starts at position i of s, or 0
MatchEnd(r, s, i) == SetMax(Ends(r, s, i) \cup {0})

RECURSIVE ReSubFrom(_, _, _, _), ReSubAt(_, _, _, _, _)
\* re.sub from position i on, where the match at i ends at e: an empty match
\* and no match leave the character at i in place
ReSubAt(r, repl, s, i, e) ==
    IF e <= i
    THEN Ch(s, i) \o ReSubFrom(r, repl, s, i + 1)
    ELSE repl \o ReSubFrom(r, repl, s, e)

ReSubFrom(r, repl, s, i) ==
    IF i > Len(s) THEN "" ELSE ReSubAt(r, repl, s, i, MatchEnd(r, s, i))

\* re.sub(r, repl, s) for a pattern that matches no empty string
ReSub(r, repl, s) == ReSubFrom(r, repl, s, 1)

\* re.search(r, s): the leftmost start that has a match, Len(s) + 1 when none has
ReSearch(r, s) == SetMin({i \in 1..Len(s) : Ends(r, s, i) # {}} \cup {Len(s) + 1})

(***************************************************************************)
(* Constant tables of the source.                                          *)
(***************************************************************************)
\* SF_FILE_COLUMN (a name cannot start with SF_ here)
SALESFORCE_FILE_COLUMN == "Document Title"

SP_FILE_COLUMN == "Name"

NOISE_WORDS ==
    { "hig", "h.i.g.", "h.i.g", "capital", "management", "llc", "inc",
      "confidential", "information", "memorandum", "presentation",
      "vf", "vfinal", "final", "v1", "v2", "v3", "vs", "draft",
      "copy", "print", "redacted",
      "pdf", "docx", "xlsx", "pptx", "doc", "xls", "ppt", "msg", "xps",
      "middle", "market", "advantage", "fund", "infrastructure", "infra",
      "small", "cap", "lbo", "growth" }

Digit == Cls(DigitChars)

\* [\.\-/]
DateSep == Cls({".", "-", "/"})

\* \s
Space == Cls(SpaceChars)

Words(ws) == Alt([k \in DOMAIN ws |-> Lit(ws[k], TRUE)])

\* the eight patterns, in the order they are applied (flags=re.IGNORECASE)
DATE_PATTERNS ==
    << Cat(<<Cls({"("}), Plus(Cls(WordChars)), Plus(Space), Rep(Digit, 4, 4), Cls({")"})>>),
       Cat(<<Cls({"("}), Plus(Cls(WordChars)), Plus(Space), Rep(Digit, 4, 4), Cls({")"})>>),
       Cat(<<Rep(Digit, 1, 2), DateSep, Rep(Digit, 1, 2), DateSep, Rep(Digit, 2, 4)>>),
       Cat(<<Rep(Digit, 4, 4), DateSep, Rep(Digit, 1, 2), DateSep, Rep(Digit, 1, 2)>>),
       Cat(<<Words(<<"january", "february", "march", "april", "may", "june", "july",
                     "august", "september", "october", "november", "december">>),
             Star(Space), Rep(Digit, 4, 4)>>),
       Cat(<<Words(<<"jan", "feb", "mar", "apr", "may", "jun", "jul", "aug", "sep",
                     "oct", "nov", "dec">>),
             Opt(Cls({"."})), Star(Space), Rep(Digit, 4, 4)>>),
       Cat(<<Alt(<<Lit("spring", TRUE), Lit("summer", TRUE), Lit("fall", TRUE),
                   Lit("winter", TRUE),
                   Cat(<<Lit("q", TRUE), Cls({"1", "2", "3", "4"})>>)>>),
             Star(Space), Opt(Cls({"-", "_"})), Star(Space), Rep(Digit, 4, 4)>>),
       Rep(Digit, 4, 4) >>

\* \.[a-z]{2,5}$
ExtensionPattern == Cat(<<Cls({"."}), Rep(Cls(LowerChars), 2, 5), Eos>>)

\* [_\-\.\(\)\[\],;:]+
SeparatorPattern == Plus(Cls({"_", "-", ".", "(", ")", "[", "]", ",", ";", ":"}))

\* project[\s_\-\.]+ , the part of the codename pattern before its group
ProjectMarker ==
    Cat(<<Lit("project", TRUE), Plus(Cls(SpaceChars \cup {"_", "-", "."}))>>)

\* project[\s_\-\.]+([a-zA-Z]+)
ProjectPattern == Cat(<<ProjectMarker, Plus(Cls(AlphaChars))>>)

(***************************************************************************)
(* Normalizer and tokenizer.                                               *)
(***************************************************************************)
normalize_name(name) == StrStrip(name)

RECURSIVE StripDatesFrom(_, _, _)
\* the loop over DATE_PATTERNS, from pattern k on
StripDatesFrom(patterns, s, k) ==
    IF k > Len(patterns) THEN s
    ELSE StripDatesFrom(patterns, ReSub(patterns[k], " ", s), k + 1)

StripDates(s) == StripDatesFrom(DATE_PATTERNS, s, 1)

\* [t for t in tokens if t not in NOISE_WORDS and len(t) > 1]
DropNoise(tokens) == SelectSeq(tokens, LAMBDA t : t \notin NOISE_WORDS /\ Len(t) > 1)

normalize_for_fuzzy(name) ==
    IF name = "" THEN ""
    ELSE StrStrip(StrJoin(DropNoise(StrSplit(
             ReSub(SeparatorPattern, " ",
                 StripDates(ReSub(ExtensionPattern, "", StrStrip(StrLower(name)))))))))

\* None, as returned by extract_project_name: its callers test only the truth
\* value of the result, and a codename that is returned has three letters or more
NoCodename == ""

\* m.group(1).lower() for the match that starts at position i of name
CodenameAt(name, i) ==
    StrLower(SubSeq(name, MatchEnd(ProjectMarker, name, i),
                          MatchEnd(ProjectPattern, name, i) - 1))

\* if codename in NOISE_WORDS or len(codename) < 3: return None
CodenameOrNone(codename) ==
    IF codename \in NOISE_WORDS \/ Len(codename) < 3 THEN NoCodename ELSE codename

\* the result for a match that starts at position i (Len(name) + 1: no match)
CodenameFrom(name, i) ==
    IF i > Len(name) THEN NoCodename ELSE CodenameOrNone(CodenameAt(name, i))

\* extract_project_name without the marker: the first word of the name
WordPattern == Plus(Cls(AlphaChars))

WordFrom(name, i) ==
    IF i > Len(name) THEN NoCodename
    ELSE CodenameOrNone(StrLower(SubSeq(name, i, MatchEnd(WordPattern, name, i) - 1)))

extract_first_word(name) == WordFrom(name, ReSearch(WordPattern, name))

extract_project_name(name) == CodenameFrom(name, ReSearch(ProjectPattern, name))

\* {t for t in tokens if len(t) > 1 and not t.isdigit()}
Significant(tokens) == {t \in tokens : Len(t) > 1 /\ ~IsDigitStr(t)}

tokenize(name) == Significant(SeqToSet(StrSplit(normalize_for_fuzzy(name))))

(***************************************************************************)
(* difflib.SequenceMatcher(None, a, b) for len(b) < 200 (no element of b   *)
(* is dropped as popular below that length).  Positions are Python's:      *)
(* a[i] is Ch(a, i + 1), and a block is a[i:i+k] = b[j:j+k].               *)
(***************************************************************************)
RECURSIVE MatchLen(_, _, _, _, _, _)
\* the length of the longest common run that starts at a[i], b[j]
MatchLen(a, b, i, j, ahi, bhi) ==
    IF i < ahi /\ j < bhi /\ Ch(a, i + 1) = Ch(b, j + 1)
    THEN 1 + MatchLen(a, b, i + 1, j + 1, ahi, bhi)
    ELSE 0

\* every start in a[alo:ahi], b[blo:bhi] with the length of the run from it
Blocks(a, b, alo, ahi, blo, bhi) ==
    {<<i, j, MatchLen(a, b, i, j, ahi, bhi)>> : i \in alo..(ahi - 1), j \in blo..(bhi - 1)}

\* of the blocks S that start at i in a, the one that starts earliest in b
EarliestInB(S, i, k) == <<i, SetMin({m[2] : m \in {n \in S : n[1] = i}}), k>>

\* of the blocks S, all of length k, the one that starts earliest in a, then in b
Earliest(S, k) == EarliestInB(S, SetMin({m[1] : m \in S}), k)

\* of the blocks L, the longest
LongestOf(L, k) == Earliest({m \in L : m[3] = k}, k)

\* the result for the blocks L: (alo, blo, 0) when there is no match
FirstLongest(L, alo, blo) ==
    IF L = {} THEN <<alo, blo, 0>> ELSE LongestOf(L, SetMax({m[3] : m \in L}))

\* the longest block in a[alo:ahi], b[blo:bhi]; of the longest ones the one
\* that starts earliest in a, and of those the one that starts earliest in b
find_longest_match(a, b, alo, ahi, blo, bhi) ==
    FirstLongest(Blocks(a, b, alo, ahi, blo, bhi), alo, blo)

RECURSIVE MatchedChars(_, _, _, _, _, _), MatchedAround(_, _, _, _, _, _, _)
\* the size of the block m = (i, j, k) and of the blocks to its left and right
MatchedAround(a, b, alo, ahi, blo, bhi, m) ==
    IF m[3] = 0 THEN 0
    ELSE m[3]
         + (IF alo < m[1] /\ blo < m[2]
            THEN MatchedChars(a, b, alo, m[1], blo, m[2]) ELSE 0)
         + (IF m[1] + m[3] < ahi /\ m[2] + m[3] < bhi
            THEN MatchedChars(a, b, m[1] + m[3], ahi, m[2] + m[3], bhi) ELSE 0)

\* the sum of the sizes of get_matching_blocks() within a[alo:ahi], b[blo:bhi]
MatchedChars(a, b, alo, ahi, blo, bhi) ==
    MatchedAround(a, b, alo, ahi, blo, bhi, find_longest_match(a, b, alo, ahi, blo, bhi))

(***************************************************************************)
(* Binary floating point (IEEE 754 binary64, round to nearest, ties to     *)
(* even), as Python's float computes * + / on the values of fuzzy_score.   *)
(* A natural number of any size is the little-endian sequence of its       *)
(* digits in base LimbBase; a float is m * 2^e with m below 2^53.          *)
(***************************************************************************)
LimbBits == 12

LimbBase == 4096

MantissaBits == 53

RECURSIVE Pow2(_)
Pow2(n) == IF n = 0 THEN 1 ELSE 2 * Pow2(n - 1)

RECURSIVE BTrim(_)
\* without leading zero digits
BTrim(x) == IF x # <<>> /\ x[Len(x)] = 0 THEN BTrim(SubSeq(x, 1, Len(x) - 1)) ELSE x

RECURSIVE BCarryFrom(_, _, _)
BCarryFrom(x, k, c) ==
    IF k > Len(x)
    THEN (IF c = 0 THEN <<>> ELSE <<c % LimbBase>> \o BCarryFrom(x, k, c \div LimbBase))
    ELSE <<(x[k] + c) % LimbBase>> \o BCarryFrom(x, k + 1, (x[k] + c) \div LimbBase)

\* the number whose digit sums are x, with the carries propagated
BCarry(x) == BTrim(BCarryFrom(x, 1, 0))

BDigit(x, k) == IF k \in DOMAIN x THEN x[k] ELSE 0

BFromInt(n) == BCarry(<<n>>)

BAdd(x, y) ==
    BCarry([k \in 1..(IF Len(x) > Len(y) THEN Len(x) ELSE Len(y)) |-> BDigit(x, k) + BDigit(y, k)])

RECURSIVE BConv(_, _, _, _)
\* the sum of x[i] * y[k + 1 - i] for i from i on
BConv(x, y, k, i) ==
    IF i > Len(x) THEN 0 ELSE x[i] * BDigit(y, k + 1 - i) + BConv(x, y, k, i + 1)

BMul(x, y) ==
    IF x = <<>> \/ y = <<>> THEN <<>>
    ELSE BCarry([k \in 1..(Len(x) + Len(y) - 1) |-> BConv(x, y, k, 1)])

\* x * 2^s
BShl(x, s) ==
    LET r == Pow2(s % LimbBits)
    IN  IF x = <<>> THEN <<>>
        ELSE [k \in 1..(s \div LimbBits) |-> 0] \o BCarry([k \in DOMAIN x |-> x[k] * r])

\* x \div 2^s
BShr(x, s) ==
    LET d == s \div LimbBits
        r == Pow2(s % LimbBits)
    IN  BTrim([k \in 1..(IF Len(x) > d THEN Len(x) - d ELSE 0) |->
                 BDigit(x, k + d) \div r + (BDigit(x, k + d + 1) % r) * (LimbBase \div r)])

\* bit s of x (bit 0 is the lowest)
BBit(x, s) == (BDigit(x, s \div LimbBits + 1) \div Pow2(s % LimbBits)) % 2

\* x % 2^s # 0
BLowNonzero(x, s) ==
    \/ \E k \in 1..(s \div LimbBits) : BDigit(x, k) # 0
    \/ BDigit(x, s \div LimbBits + 1) % Pow2(s % LimbBits) # 0

RECURSIVE IntBitLen(_)
IntBitLen(n) == IF n = 0 THEN 0 ELSE 1 + IntBitLen(n \div 2)

\* the number of bits of x = BTrim(x)
BBitLen(x) == IF x = <<>> THEN 0 ELSE (Len(x) - 1) * LimbBits + IntBitLen(x[Len(x)])

RECURSIVE BDivFrom(_, _, _, _)
\* long division by q < 2^18 from digit k down; rem is the running remainder
BDivFrom(x, q, k, rem) ==
    IF k = 0 THEN [quot |-> <<>>, rem |-> rem]
    ELSE LET v == rem * LimbBase + x[k]
             lower == BDivFrom(x, q, k - 1, v % q)
         IN  [quot |-> lower.quot \o <<v \div q>>, rem |-> lower.rem]

BDivSmall(x, q) ==
    LET d == BDivFrom(x, q, Len(x), 0) IN [quot |-> BTrim(d.quot), rem |-> d.rem]

RECURSIVE BToIntFrom(_, _)
BToIntFrom(x, k) == IF k > Len(x) THEN 0 ELSE x[k] + LimbBase * BToIntFrom(x, k + 1)

\* the value of x, for x below 2^31
BToInt(x) == BToIntFrom(x, 1)

\* q or q + 1: half is the highest bit that was dropped, low tells whether a
\* lower one was set (round to nearest, ties to even)
RoundTo(q, half, low) ==
    IF half = 1 /\ (low \/ BBit(q, 0) = 1) THEN BAdd(q, <<1>>) ELSE q

\* n * 2^e with the s lowest bits of n rounded away
RoundBits(n, e, sticky, s) ==
    IF s <= 0 THEN [m |-> n, e |-> e]
    ELSE [m |-> RoundTo(BShr(n, s), BBit(n, s - 1), BLowNonzero(n, s - 1) \/ sticky),
          e |-> e + s]

\* the float nearest to n * 2^e (plus a positive amount below 2^e when sticky)
RoundNearestEven(n, e, sticky) == RoundBits(n, e, sticky, BBitLen(n) - MantissaBits)

\* float(n) for a small natural number n
FInt(n) == [m |-> BFromInt(n), e |-> 0]

\* the float of a quotient and remainder of p * 2^72 by q
RoundQuotient(d) == RoundNearestEven(d.quot, -72, d.rem # 0)

\* p / q on two positive int below 2^16 (true division), and the float written
\* as a decimal literal p/q (0.6 is 6/10)
FDivInt(p, q) == RoundQuotient(BDivSmall(BShl(BFromInt(p), 72), q))

FMul(x, y) == RoundNearestEven(BMul(x.m, y.m), x.e + y.e, FALSE)

\* x + y with both mantissas shifted to the exponent e
FAddAt(x, y, e) == RoundNearestEven(BAdd(BShl(x.m, x.e - e), BShl(y.m, y.e - e)), e, FALSE)

FAdd(x, y) == FAddAt(x, y, IF x.e < y.e THEN x.e ELSE y.e)

\* int(x) for a float x >= 0 below 2^31
FTrunc(x) == IF x.e >= 0 THEN BToInt(BShl(x.m, x.e)) ELSE BToInt(BShr(x.m, 0 - x.e))

(***************************************************************************)
(* Similarity scorer.                                                      *)
(***************************************************************************)
\* SequenceMatcher.ratio(): 2.0 * matches / length, as the pair <<2 * matches, length>>
SequenceRatio(a, b) == <<2 * MatchedChars(a, b, 0, Len(a), 0, Len(b)), Len(a) + Len(b)>>

\* len(tokens_a & tokens_b) / len(tokens_a | tokens_b), as <<numerator, denominator>>
\* (0.0, as <<0, 1>>, when a token set is empty)
Jaccard(tokens_a, tokens_b) ==
    IF tokens_a # {} /\ tokens_b # {}
    THEN <<Cardinality(tokens_a \cap tokens_b), Cardinality(tokens_a \cup tokens_b)>>
    ELSE <<0, 1>>

\* int((0.6 * seq_ratio + 0.4 * jaccard) * 100) in float arithmetic
WeightedScore(seq, jac) ==
    FTrunc(FMul(FAdd(FMul(FDivInt(6, 10), FDivInt(seq[1], seq[2])),
                     FMul(FDivInt(4, 10), FDivInt(jac[1], jac[2]))),
                FInt(100)))

\* fuzzy_score after its first two statements
ScoreOfKeys(norm_a, norm_b) ==
    IF norm_a = "" \/ norm_b = "" THEN 0
    ELSE WeightedScore(SequenceRatio(norm_a, norm_b),
                       Jaccard(SeqToSet(StrSplit(norm_a)), SeqToSet(StrSplit(norm_b))))

fuzzy_score(a, b) == ScoreOfKeys(normalize_for_fuzzy(a), normalize_for_fuzzy(b))

(***************************************************************************)
(* Python values: a field of a csv.DictReader row is a str, or None when   *)
(* the line is shorter than the header; a dict is a function.              *)
(***************************************************************************)
None == [none |-> TRUE]

Txt(s) == [s |-> s]

\* d.get(k, default)
DictGet(d, k, default) == IF k \in DOMAIN d THEN d[k] ELSE default

\* the truth value of a str or None
Truthy(v) == v # None /\ v # Txt("")

\* a dict of lists that remembers the order its keys were inserted in
EmptyDict == [keys |-> <<>>, at |-> <<>>]

\* by_name[key].append(row)
DictAppend(d, key, row) ==
    IF key \in DOMAIN d.at
    THEN [d EXCEPT !.at[key] = Append(@, row)]
    ELSE [keys |-> Append(d.keys, key), at |-> d.at @@ (key :> <<row>>)]

\* the sequences that enumerate the set S once: the orders a set can be iterated in
Orders(S) == {q \in [1..Cardinality(S) -> S] : SeqToSet(q) = S}

(***************************************************************************)
(* Loaders.  Every row has a str in its name column (the loaders call      *)
(* .strip() on it).                                                        *)
(***************************************************************************)
RECURSIVE LoadSalesforceFrom(_, _, _)
LoadSalesforceFrom(csv, k, acc) ==
    IF k > Len(csv) THEN acc
    ELSE LET row == csv[k]
             title == StrStrip(DictGet(row, SALESFORCE_FILE_COLUMN, Txt("")).s)
             key == normalize_name(title)
         IN  IF title = "" THEN LoadSalesforceFrom(csv, k + 1, acc)
             ELSE LoadSalesforceFrom(csv, k + 1,
                      [rows |-> Append(acc.rows, row),
                       names |-> acc.names \cup {key},
                       by_name |-> DictAppend(acc.by_name, key, row)])

load_salesforce_csv(csv) ==
    LoadSalesforceFrom(csv, 1, [rows |-> <<>>, names |-> {}, by_name |-> EmptyDict])

\* row.get(SP_FILE_COLUMN) or row.get("FileLeafRef") or row.get("Title") or ""
\* (the fourth alternative, the name column behind a byte order mark, is a
\* column name that cannot be written here)
SharepointName(row) ==
    LET n1 == DictGet(row, SP_FILE_COLUMN, None)
        n2 == DictGet(row, "FileLeafRef", None)
        n3 == DictGet(row, "Title", None)
    IN  IF Truthy(n1) THEN n1.s
        ELSE IF Truthy(n2) THEN n2.s
        ELSE IF Truthy(n3) THEN n3.s
        ELSE ""

RECURSIVE LoadSharepointFrom(_, _, _)
LoadSharepointFrom(csv, k, acc) ==
    LET row == csv[k]
        name == StrStrip(SharepointName(row))
        key == normalize_name(name)
    IN  IF k > Len(csv) THEN acc
        ELSE IF name = "" THEN LoadSharepointFrom(csv, k + 1, acc)
        ELSE LoadSharepointFrom(csv, k + 1,
                 [rows |-> Append(acc.rows, row),
                  names |-> acc.names \cup {key},
                  by_name |-> DictAppend(acc.by_name, key, row)])

load_sharepoint_csv(csv) ==
    LoadSharepointFrom(csv, 1, [rows |-> <<>>, names |-> {}, by_name |-> EmptyDict])

(***************************************************************************)
(* Inputs.  A CSV file is a header and lines of cells; csv.DictReader      *)
(* gives each line a row with every column of the header, None where the   *)
(* line is too short.  The files of a run are extracts of the lists below: *)
(* at most MaxLeft consecutive Salesforce lines and at most MaxRight       *)
(* consecutive SharePoint lines.                                           *)
(***************************************************************************)
MaxLeft == 3

MaxRight == 3

\* the Salesforce export with and without the opportunity columns
SfHeaders == { <<"Document Title", "Opp Name", "Fund">>, <<"Document Title">> }

SfLines ==
    << <<"Project Eagle CIM (HIG) 2024.pdf", "">>,
       <<"Project Eagle Deck.pptx", "", "">>,
       <<"Project Orange Teaser.pdf", "Orange Holdings (Project Quartz)", "Fund III">>,
       <<"ChenMed CIM.pdf", "ChenMed (Project Resurgence)", "Fund IV">>,
       <<"Acme Overview.pdf">>,
       <<"(Project_Eagle 2024).pdf", "", "">> >>

SpHeader == <<"Name", "FileLeafRef">>

SpLines ==
    << <<"Eagle_CIM_Final.docx", "">>,
       <<"Project Eagle Mgmt Deck.pptx", "">>,
       <<"Project Quartz Teaser.pdf", "">>,
       <<"Project Resurgence CIM.pdf", "">>,
       <<"acme overview.pdf", "">>,
       <<"", "Acme_Overview_Final.docx">> >>

\* the values of --fuzzy-threshold on the command line; None: not given
ThresholdArgs == {None, Txt("-5"), Txt("0"), Txt("60"), Txt("65"), Txt("150"), Txt("7x")}

\* next(csv.DictReader(f)) for one line
DictReader(header, line) ==
    [h \in SeqToSet(header) |->
        LET i == CHOOSE j \in DOMAIN header : header[j] = h
        IN  IF i <= Len(line) THEN Txt(line[i]) ELSE None]

\* the lines i .. i + n - 1 of a file
Extract(lines, i, n) == SubSeq(lines, i, i + n - 1)

ReadCsv(header, lines) == [k \in DOMAIN lines |-> DictReader(header, lines[k])]

(***************************************************************************)
(* The state.                                                              *)
(***************************************************************************)
VARIABLES
    argv,     \* the command line: fuzzy, case_sensitive, fuzzy_threshold (a str or None)
    sf_csv,   \* the Salesforce file: header, lines
    sp_csv,   \* the SharePoint file: header, lines
    pc,       \* where the run is: "start", "parsed", "pass1", "pass2", "pass3",
              \* "done", "exit" (argparse error), "raised" (uncaught exception);
              \* "score", "scored" for a call of fuzzy_score on its own
    args,     \* parser.parse_args(), None before
    main,     \* the variables of main
    ffm,      \* the call of find_fuzzy_matches in progress: [c, f], None otherwise
    twin,     \* a second run of find_fuzzy_matches on the same inputs: [c, f], or None
    probe,    \* one call of fuzzy_score: [a, b], then [a, b, score]; None otherwise
    memo      \* the results of the pure functions on the names of the lists of
              \* inputs: computed once, when the run starts, and never changed

(***************************************************************************)
(* The results of normalize_for_fuzzy, extract_project_name, tokenize and  *)
(* fuzzy_score on the names that can occur in a run.  They are functions   *)
(* of their arguments alone, so a run may look a result up instead of      *)
(* computing it again: FuzzyKey, Codename, Tokens and Score are calls of   *)
(* the four functions.                                                     *)
(***************************************************************************)
SfNames == {StrStrip(SfLines[k][1]) : k \in DOMAIN SfLines}

SpNames == {StrStrip(SpLines[k][j]) : k \in DOMAIN SpLines, j \in {1, 2}} \ {""}

\* the keys of the names: the name, or the name in lower case
SfKeyUniverse == SfNames \cup {StrLower(n) : n \in SfNames}

SpKeyUniverse == SpNames \cup {StrLower(n) : n \in SpNames}

OppNames == {SfLines[k][2] : k \in {j \in DOMAIN SfLines : Len(SfLines[j]) >= 2}} \cup {""}

\* f"project {opp_proj} {normalize_for_fuzzy(sf_key)}"
AltNameOf(opp_proj, norm) == "project " \o opp_proj \o " " \o norm

\* the alternative names pass 3 can form
AltNames ==
    {AltNameOf(extract_project_name(o), normalize_for_fuzzy(k)) :
        o \in {x \in OppNames : extract_project_name(x) # NoCodename}, k \in SfKeyUniverse}

Results ==
    [fuzzy |-> [n \in SfKeyUniverse \cup SpKeyUniverse |-> normalize_for_fuzzy(n)],
     codename |-> [n \in SfKeyUniverse \cup SpKeyUniverse \cup OppNames |->
                      extract_project_name(n)],
     tokens |-> [n \in SfKeyUniverse \cup SpKeyUniverse |-> tokenize(n)],
     score |-> [p \in (SfKeyUniverse \cup AltNames) \X SpKeyUniverse |->
                   fuzzy_score(p[1], p[2])]]

\* no result is kept: every call computes
NoResults == [fuzzy |-> <<>>, codename |-> <<>>, tokens |-> <<>>, score |-> <<>>]

\* normalize_for_fuzzy(name)
FuzzyKey(name) ==
    IF name \in DOMAIN memo.fuzzy THEN memo.fuzzy[name] ELSE normalize_for_fuzzy(name)

\* extract_project_name(name)
Codename(name) ==
    IF name \in DOMAIN memo.codename THEN memo.codename[name] ELSE extract_project_name(name)

\* tokenize(name)
Tokens(name) == IF name \in DOMAIN memo.tokens THEN memo.tokens[name] ELSE tokenize(name)

\* fuzzy_score(a, b)
Score(a, b) ==
    IF <<a, b>> \in DOMAIN memo.score THEN memo.score[<<a, b>>] ELSE fuzzy_score(a, b)

\* f"project {opp_proj} {normalize_for_fuzzy(sf_key)}"
AltName(opp_proj, sf_key) == AltNameOf(opp_proj, FuzzyKey(sf_key))

(***************************************************************************)
(* int(s), the type of --fuzzy-threshold: an optional sign and decimal     *)
(* digits, single underscores between digits, white space around.          *)
(***************************************************************************)
IntBody(s) ==
    LET t == StrStrip(s)
    IN  IF t # "" /\ Head(t) \in {"+", "-"} THEN Tail(t) ELSE t

IsIntLiteral(s) ==
    LET body == IntBody(s)
    IN  /\ body # ""
        /\ CharsOf(body) \subseteq DigitChars \cup {"_"}
        /\ Head(body) # "_"
        /\ Ch(body, Len(body)) # "_"
        /\ \A i \in 1..(Len(body) - 1) : ~(Ch(body, i) = "_" /\ Ch(body, i + 1) = "_")

RECURSIVE DigitsValue(_, _, _)
DigitsValue(body, k, acc) ==
    IF k > Len(body) THEN acc
    ELSE IF Ch(body, k) = "_" THEN DigitsValue(body, k + 1, acc)
    ELSE DigitsValue(body, k + 1, 10 * acc + Ord(Ch(body, k)) - 48)

IntOfStr(s) ==
    LET t == StrStrip(s)
        v == DigitsValue(IntBody(s), 1, 0)
    IN  IF Head(t) = "-" THEN 0 - v ELSE v

(***************************************************************************)
(* find_fuzzy_matches.  c is the record of its arguments (sf_unmatched,    *)
(* sp_unmatched, sf_by_name, sp_by_name, threshold, case_sensitive), f the *)
(* record of its local variables: phase (the loop it is in), queue (the    *)
(* keys the current loop has still to visit, in order), sf_orig, sp_orig,  *)
(* sp_by_project, fuzzy_rows, sf_matched, sp_matched, sp_token_index.      *)
(***************************************************************************)
\* best_sp = None; a key is never the empty string
NoKey == ""

UpperCh(ch) ==
    IF ch \in LowerChars
    THEN Ch(UpperLetters, CHOOSE i \in 1..26 : Ch(LowerLetters, i) = ch)
    ELSE ch

\* str.title() of a word of lower-case letters
StrTitle(w) == IF w = "" THEN "" ELSE UpperCh(Head(w)) \o Tail(w)

RECURSIVE OrigFrom(_, _, _, _)
OrigFrom(keys, k, case_sensitive, acc) ==
    LET key == IF case_sensitive THEN keys[k] ELSE StrLower(keys[k])
    IN  IF k > Len(keys) THEN acc
        ELSE OrigFrom(keys, k + 1, case_sensitive,
                      IF key \in DOMAIN acc THEN acc ELSE acc @@ (key :> keys[k]))

\* sp_orig, sf_orig: key -> the first name of by_name that has this key
OrigNames(by_name, case_sensitive) == OrigFrom(by_name.keys, 1, case_sensitive, <<>>)

\* sp_by_project, filled by a loop over the set sp_unmatched that visits it in
\* the order given
GroupByProject(order) ==
    LET projs == {Codename(order[i]) : i \in DOMAIN order} \ {NoCodename}
    IN  [proj \in projs |-> SelectSeq(order, LAMBDA k : Codename(k) = proj)]

\* the loop without "if sp_key in sp_matched: continue"
AlsoMatched(sp_keys, sp_matched) == sp_keys

\* if sp_key in sp_matched: continue
NotYetMatched(sp_keys, sp_matched) == SelectSeq(sp_keys, LAMBDA k : k \notin sp_matched)

RECURSIVE BestFrom(_, _, _, _)
BestFrom(sp_keys, scores, k, best) ==
    IF k > Len(sp_keys) THEN best
    ELSE BestFrom(sp_keys, scores, k + 1,
                  IF scores[k] > best.score
                  THEN [score |-> scores[k], sp |-> sp_keys[k]]
                  ELSE best)

\* the loop that keeps best_score, best_sp over the candidates in the order
\* they are visited: a later candidate wins only with a strictly higher score
BestCandidate(sp_keys, scores) == BestFrom(sp_keys, scores, 1, [score |-> 0, sp |-> NoKey])

\* the commit test without the bar: if best_sp
AcceptsBest(best, bar) == best.sp # NoKey

\* if best_sp and best_score >= bar
Accepts(best, bar) == best.sp # NoKey /\ best.score >= bar

\* by_name.get(display, [{}])[0]
FirstRow(by_name, display) ==
    IF display \in DOMAIN by_name.at THEN by_name.at[display][1] ELSE <<>>

\* sf_by_name.get(sf_orig.get(sf_key, sf_key), [{}])[0]
SfRow(c, f, sf_key) == FirstRow(c.sf_by_name, DictGet(f.sf_orig, sf_key, sf_key))

\* the row appended to fuzzy_rows, from the two rows of the source files; the
\* entries sf_key and sp_key are not in the source's row: they record the keys
\* added to sf_matched and sp_matched with it
RowOf(sf_row, sp_row, sf_display, sp_display, sf_key, best, method, opp_name) ==
    ("SF_Name" :> DictGet(sf_row, SALESFORCE_FILE_COLUMN, Txt(sf_display)))
    @@ ("SP_Name" :> DictGet(sp_row, SP_FILE_COLUMN, DictGet(sp_row, "Name", Txt(sp_display))))
    @@ ("Match_Score" :> best.score)
    @@ ("Match_Method" :> method)
    @@ ("SF_Opp_Name" :> opp_name)
    @@ ("SF_Fund" :> DictGet(sf_row, "Fund", Txt("")))
    @@ ("sf_key" :> sf_key)
    @@ ("sp_key" :> best.sp)

\* the row for the display names sf_display and sp_display
RowFor(c, sf_display, sp_display, sf_key, best, method, opp_name) ==
    RowOf(FirstRow(c.sf_by_name, sf_display), FirstRow(c.sp_by_name, sp_display),
          sf_display, sp_display, sf_key, best, method, opp_name)

MatchRow(c, f, sf_key, best, method, opp_name) ==
    RowFor(c, DictGet(f.sf_orig, sf_key, sf_key), DictGet(f.sp_orig, best.sp, best.sp),
           sf_key, best, method, opp_name)

\* sf_matched.add(sf_key); sp_matched.add(best_sp); fuzzy_rows.append(row)
Commit(f, sf_key, best_sp, row) ==
    [f EXCEPT !.sf_matched = @ \cup {sf_key},
              !.sp_matched = @ \cup {best_sp},
              !.fuzzy_rows = Append(@, row)]

\* the statements before the first loop over sf_unmatched
FfmEnter(c, order) ==
    [phase |-> "pass1",
     queue |-> Sorted(c.sf_unmatched),
     sp_orig |-> OrigNames(c.sp_by_name, c.case_sensitive),
     sf_orig |-> OrigNames(c.sf_by_name, c.case_sensitive),
     sp_by_project |-> GroupByProject(order),
     fuzzy_rows |-> <<>>,
     sf_matched |-> {},
     sp_matched |-> {},
     sp_token_index |-> <<>>]

\* if best_sp and best_score >= bar: the statements of a commit
CommitIf(c, f, sf_key, best, bar, method, opp_name) ==
    IF Accepts(best, bar)
    THEN Commit(f, sf_key, best.sp, MatchRow(c, f, sf_key, best, method, opp_name))
    ELSE f

\* the loop over the candidates sp_keys with score = fuzzy_score(sf_key, sp_key)
BestScored(sf_key, sp_keys) ==
    BestCandidate(sp_keys, [k \in DOMAIN sp_keys |-> Score(sf_key, sp_keys[k])])

\* pass 1 for a key whose codename is proj
Pass1For(c, f, sf_key, proj) ==
    IF proj = NoCodename \/ proj \notin DOMAIN f.sp_by_project THEN f
    ELSE CommitIf(c, f, sf_key,
                  BestScored(sf_key, NotYetMatched(f.sp_by_project[proj], f.sp_matched)),
                  c.threshold, "project_name",
                  DictGet(SfRow(c, f, sf_key), "Opp Name", Txt("")))

\* one iteration of the loop of pass 1
Pass1Key(c, f, sf_key) == Pass1For(c, f, sf_key, Codename(sf_key))

\* the statements between the loops of pass 1 and pass 2
Pass2Enter(c, f) ==
    LET sf_remaining == c.sf_unmatched \ f.sf_matched
        sp_remaining == c.sp_unmatched \ f.sp_matched
    IN  [f EXCEPT !.phase = "pass2",
                  !.queue = Sorted(sf_remaining),
                  !.sp_token_index =
                      [tok \in UNION {Tokens(k) : k \in sp_remaining} |->
                          {k \in sp_remaining : tok \in Tokens(k)}]]

\* candidates as the keys that have every token of sf_key, not one of them
CandidatesOfEveryToken(f, sf_key) ==
    {k \in UNION {f.sp_token_index[tok] : tok \in DOMAIN f.sp_token_index} :
        \A tok \in Tokens(sf_key) :
            tok \in DOMAIN f.sp_token_index /\ k \in f.sp_token_index[tok]}
        \ f.sp_matched

\* candidates, after candidates -= sp_matched
Candidates(f, sf_key) ==
    UNION {f.sp_token_index[tok] : tok \in Tokens(sf_key) \cap DOMAIN f.sp_token_index}
        \ f.sp_matched

\* the token pass without its guard
NoGuard(sf_proj, sp_proj) == FALSE

\* GUARD: if sf_proj and sp_proj and sf_proj != sp_proj: continue
CrossProject(sf_proj, sp_proj) ==
    sf_proj # NoCodename /\ sp_proj # NoCodename /\ sf_proj # sp_proj

\* the candidates that pass the guard, in the order they are visited
Guarded(sf_proj, order) ==
    SelectSeq(order, LAMBDA k : ~CrossProject(sf_proj, Codename(k)))

\* for tok in tokenize(best_sp): sp_token_index.get(tok, set()).discard(best_sp)
Discard(sp_token_index, tokens, best_sp) ==
    [tok \in DOMAIN sp_token_index |->
        IF tok \in tokens THEN sp_token_index[tok] \ {best_sp} ELSE sp_token_index[tok]]

\* the statements of pass 2 after the loop over the candidates
Pass2Commit(c, f, sf_key, best) ==
    IF Accepts(best, c.threshold)
    THEN [Commit(f, sf_key, best.sp,
                 MatchRow(c, f, sf_key, best, "token_fuzzy",
                          DictGet(SfRow(c, f, sf_key), "Opp Name", Txt(""))))
             EXCEPT !.sp_token_index = Discard(@, Tokens(best.sp), best.sp)]
    ELSE f

\* one iteration of the loop of pass 2; order is the order in which the set
\* candidates is visited
Pass2Key(c, f, sf_key, order) ==
    IF Tokens(sf_key) = {} \/ order = <<>> THEN f
    ELSE Pass2Commit(c, f, sf_key,
                     BestScored(sf_key, Guarded(Codename(sf_key), order)))

\* the statements between the loops of pass 2 and pass 3
Pass3Enter(c, f) ==
    [f EXCEPT !.phase = "pass3", !.queue = Sorted(c.sf_unmatched \ f.sf_matched)]

\* max(threshold - 10, 60)
CrossRefBar(threshold) == IF threshold - 10 > 60 THEN threshold - 10 ELSE 60

\* max(score, alt_score)
IntMax(x, y) == IF x >= y THEN x ELSE y

\* the loop over the candidates sp_keys of pass 3, with use_score
BestCrossRef(sf_key, alt_name, sp_keys) ==
    BestCandidate(sp_keys,
        [k \in DOMAIN sp_keys |->
            IntMax(Score(sf_key, sp_keys[k]), Score(alt_name, sp_keys[k]))])

\* pass 3 without the test of file_proj: if not opp_proj: continue
Pass3AnyName(c, f, sf_key, opp_name, opp_proj) ==
    IF opp_proj = NoCodename THEN f
    ELSE IF opp_proj \notin DOMAIN f.sp_by_project THEN f
    ELSE CommitIf(c, f, sf_key,
                  BestCrossRef(sf_key, AltName(opp_proj, sf_key),
                               NotYetMatched(f.sp_by_project[opp_proj], f.sp_matched)),
                  CrossRefBar(c.threshold),
                  "opp_name_xref (Project " \o StrTitle(opp_proj) \o ")", opp_name)

\* pass 3 for a key whose row has the str opp_name with the codename opp_proj
Pass3For(c, f, sf_key, opp_name, opp_proj) ==
    IF opp_proj = NoCodename \/ Codename(sf_key) # NoCodename THEN f
    ELSE IF opp_proj \notin DOMAIN f.sp_by_project THEN f
    ELSE CommitIf(c, f, sf_key,
                  BestCrossRef(sf_key, AltName(opp_proj, sf_key),
                               NotYetMatched(f.sp_by_project[opp_proj], f.sp_matched)),
                  CrossRefBar(c.threshold),
                  "opp_name_xref (Project " \o StrTitle(opp_proj) \o ")", opp_name)

\* pass 3 from opp_name = sf_row.get("Opp Name", "") on: re.search raises
\* TypeError on None
Pass3Opp(c, f, sf_key, opp_name) ==
    IF opp_name = None THEN [f EXCEPT !.phase = "raised"]
    ELSE Pass3For(c, f, sf_key, opp_name, Codename(opp_name.s))

\* pass 3 for a key with the rows sf_row_list
Pass3Rows(c, f, sf_key, sf_row_list) ==
    IF sf_row_list = <<>> THEN f
    ELSE Pass3Opp(c, f, sf_key, DictGet(sf_row_list[1], "Opp Name", Txt("")))

\* sf_by_name.get(sf_display_name, [])
RowList(by_name, display) ==
    IF display \in DOMAIN by_name.at THEN by_name.at[display] ELSE <<>>

\* one iteration of the loop of pass 3
Pass3Key(c, f, sf_key) ==
    Pass3Rows(c, f, sf_key, RowList(c.sf_by_name, DictGet(f.sf_orig, sf_key, sf_key)))

\* return fuzzy_rows, sf_matched, sp_matched
FfmReturn(f) == [f EXCEPT !.phase = "returned"]

\* one step of find_fuzzy_matches in whichever loop it is: the next key of the
\* loop, or the statements that lead to the next loop
FfmStep(c, f, order) ==
    LET rest(g) == [g EXCEPT !.queue = Tail(f.queue)]
    IN  CASE f.phase = "pass1" ->
                IF f.queue = <<>> THEN Pass2Enter(c, f)
                ELSE rest(Pass1Key(c, f, Head(f.queue)))
          [] f.phase = "pass2" ->
                IF f.queue = <<>> THEN Pass3Enter(c, f)
                ELSE rest(Pass2Key(c, f, Head(f.queue), order))
          [] f.phase = "pass3" ->
                IF f.queue = <<>> THEN FfmReturn(f)
                ELSE rest(Pass3Key(c, f, Head(f.queue)))

\* the orders in which the step may visit the set candidates
StepOrders(f) ==
    IF f.phase = "pass2" /\ f.queue # <<>>
    THEN Orders(Candidates(f, Head(f.queue)))
    ELSE {<<>>}

(***************************************************************************)
(* main.                                                                   *)
(***************************************************************************)
\* default of --fuzzy-threshold
DefaultThreshold == 70

\* sf_keys, sp_keys
ExactKeys(names, case_sensitive) ==
    IF case_sensitive
    THEN {normalize_name(n) : n \in names}
    ELSE {StrLower(normalize_name(n)) : n \in names}

\* main without the subtraction of the matched keys
KeepMatched(only, fuzzy_matched) == only

\* only_salesforce - sf_fuzzy_matched, only_sharepoint - sp_fuzzy_matched
SubtractMatched(only, fuzzy_matched) == only \ fuzzy_matched

\* the arguments main passes to find_fuzzy_matches
FfmArgs(m, a) ==
    [sf_unmatched |-> m.sf_keys \ m.sp_keys,
     sp_unmatched |-> m.sp_keys \ m.sf_keys,
     sf_by_name |-> m.sf_by_name,
     sp_by_name |-> m.sp_by_name,
     threshold |-> a.fuzzy_threshold,
     case_sensitive |-> a.case_sensitive]

vars == <<argv, sf_csv, sp_csv, pc, args, main, ffm, twin, probe, memo>>

inputs == <<argv, sf_csv, sp_csv>>

MainInit ==
    [sf_by_name |-> EmptyDict, sp_by_name |-> EmptyDict,
     sf_keys |-> {}, sp_keys |-> {},
     in_both_exact |-> {}, only_salesforce |-> {}, only_sharepoint |-> {},
     fuzzy_match_rows |-> <<>>, sf_fuzzy_matched |-> {}, sp_fuzzy_matched |-> {}]

Init ==
    /\ memo = Results
    /\ argv \in [fuzzy : BOOLEAN, case_sensitive : BOOLEAN, fuzzy_threshold : ThresholdArgs]
    /\ \E header \in SfHeaders, n \in 0..MaxLeft :
       \E i \in 1..(Len(SfLines) + 1 - n) :
           sf_csv = [header |-> header, lines |-> Extract(SfLines, i, n)]
    /\ \E n \in 0..MaxRight :
       \E i \in 1..(Len(SpLines) + 1 - n) :
           sp_csv = [header |-> SpHeader, lines |-> Extract(SpLines, i, n)]
    /\ pc = "start"
    /\ args = None
    /\ main = MainInit
    /\ ffm = None
    /\ twin = None
    /\ probe = None

\* args = parser.parse_args(): type=int refuses a value that int() refuses
ParseArgs ==
    /\ pc = "start"
    /\ LET t == argv.fuzzy_threshold
       IN  IF t # None /\ ~IsIntLiteral(t.s)
           THEN /\ pc' = "exit"
                /\ args' = args
           ELSE /\ pc' = "parsed"
                /\ args' = [fuzzy |-> argv.fuzzy,
                            case_sensitive |-> argv.case_sensitive,
                            fuzzy_threshold |-> IF t = None THEN DefaultThreshold
                                                ELSE IntOfStr(t.s)]
    /\ UNCHANGED <<inputs, memo, main, ffm, twin, probe>>

\* the sets of the exact pass
MainSets(sf, sp, sf_keys, sp_keys) ==
    [sf_by_name |-> sf.by_name, sp_by_name |-> sp.by_name,
     sf_keys |-> sf_keys, sp_keys |-> sp_keys,
     in_both_exact |-> sf_keys \cap sp_keys,
     only_salesforce |-> sf_keys \ sp_keys,
     only_sharepoint |-> sp_keys \ sf_keys,
     fuzzy_match_rows |-> <<>>, sf_fuzzy_matched |-> {}, sp_fuzzy_matched |-> {}]

MainKeys(sf, sp, case_sensitive) ==
    MainSets(sf, sp, ExactKeys(sf.names, case_sensitive), ExactKeys(sp.names, case_sensitive))

\* main after the loaders: the keys and the exact pass
MainLoaded ==
    MainKeys(load_salesforce_csv(ReadCsv(sf_csv.header, sf_csv.lines)),
             load_sharepoint_csv(ReadCsv(sp_csv.header, sp_csv.lines)),
             args.case_sensitive)

\* main without --fuzzy: the exact pass only
MainExact ==
    /\ pc = "parsed"
    /\ ~args.fuzzy
    /\ main' = MainLoaded
    /\ pc' = "done"
    /\ UNCHANGED <<inputs, memo, args, ffm, twin, probe>>

\* find_fuzzy_matches(...) up to its first loop; order is the order in which
\* the set sp_unmatched is visited
FfmCall(c, order) == [c |-> c, f |-> FfmEnter(c, order)]

\* the call of find_fuzzy_matches from main with the sets m
CallFfm(m) ==
    /\ main' = m
    /\ \E order \in Orders(m.only_sharepoint) : ffm' = FfmCall(FfmArgs(m, args), order)

\* main with --fuzzy, up to the first loop of find_fuzzy_matches
MainFuzzy ==
    /\ pc = "parsed"
    /\ args.fuzzy
    /\ CallFfm(MainLoaded)
    /\ pc' = "pass1"
    /\ UNCHANGED <<inputs, memo, args, twin, probe>>

Pass1Step ==
    /\ pc = "pass1"
    /\ ffm.f.queue # <<>>
    /\ ffm' = [ffm EXCEPT !.f = [Pass1Key(ffm.c, ffm.f, Head(ffm.f.queue))
                                    EXCEPT !.queue = Tail(ffm.f.queue)]]
    /\ UNCHANGED <<inputs, memo, pc, args, main, twin, probe>>

Pass1End ==
    /\ pc = "pass1"
    /\ ffm.f.queue = <<>>
    /\ ffm' = [ffm EXCEPT !.f = Pass2Enter(ffm.c, ffm.f)]
    /\ pc' = "pass2"
    /\ UNCHANGED <<inputs, memo, args, main, twin, probe>>

Pass2Step ==
    /\ pc = "pass2"
    /\ ffm.f.queue # <<>>
    /\ \E order \in Orders(Candidates(ffm.f, Head(ffm.f.queue))) :
          ffm' = [ffm EXCEPT !.f = [Pass2Key(ffm.c, ffm.f, Head(ffm.f.queue), order)
                                       EXCEPT !.queue = Tail(ffm.f.queue)]]
    /\ UNCHANGED <<inputs, memo, pc, args, main, twin, probe>>

Pass2End ==
    /\ pc = "pass2"
    /\ ffm.f.queue = <<>>
    /\ ffm' = [ffm EXCEPT !.f = Pass3Enter(ffm.c, ffm.f)]
    /\ pc' = "pass3"
    /\ UNCHANGED <<inputs, memo, args, main, twin, probe>>

Pass3Step ==
    /\ pc = "pass3"
    /\ ffm.f.queue # <<>>
    /\ ffm' = [ffm EXCEPT !.f = [Pass3Key(ffm.c, ffm.f, Head(ffm.f.queue))
                                    EXCEPT !.queue = Tail(ffm.f.queue)]]
    /\ pc' = IF ffm'.f.phase = "raised" THEN "raised" ELSE pc
    /\ UNCHANGED <<inputs, memo, args, main, twin, probe>>

\* find_fuzzy_matches returns, and main takes the matched keys out of its sets
Return ==
    /\ pc = "pass3"
    /\ ffm.f.queue = <<>>
    /\ main' = [main EXCEPT
                   !.fuzzy_match_rows = ffm.f.fuzzy_rows,
                   !.sf_fuzzy_matched = ffm.f.sf_matched,
                   !.sp_fuzzy_matched = ffm.f.sp_matched,
                   !.only_salesforce = SubtractMatched(@, ffm.f.sf_matched),
                   !.only_sharepoint = SubtractMatched(@, ffm.f.sp_matched)]
    /\ ffm' = None
    /\ pc' = "done"
    /\ UNCHANGED <<inputs, memo, args, twin, probe>>

Next ==
    \/ ParseArgs
    \/ MainExact
    \/ MainFuzzy
    \/ Pass1Step
    \/ Pass1End
    \/ Pass2Step
    \/ Pass2End
    \/ Pass3Step
    \/ Return

Spec == Init /\ [][Next]_vars

(***************************************************************************)
(* A second run of find_fuzzy_matches on the inputs of a finished run,     *)
(* with the same threshold or a higher one, and with its own iteration     *)
(* orders: the two runs are compared for determinism and for the effect    *)
(* of the threshold.                                                       *)
(***************************************************************************)
\* the thresholds the command lines give
Thresholds ==
    {IntOfStr(t.s) : t \in {u \in ThresholdArgs \ {None} : IsIntLiteral(u.s)}}
        \cup {DefaultThreshold}

\* the arguments of the second call: those of the first with the threshold t
TwinArgs(m, t) == FfmArgs(m, [args EXCEPT !.fuzzy_threshold = t])

\* the second call for the sets m of main
CallTwin(m) ==
    \E t \in {u \in Thresholds : u >= args.fuzzy_threshold} :
    \E order \in Orders(m.sp_keys \ m.sf_keys) :
        twin' = FfmCall(TwinArgs(m, t), order)

TwinStart ==
    /\ pc = "done"
    /\ args.fuzzy
    /\ twin = None
    /\ CallTwin(MainLoaded)
    /\ UNCHANGED <<inputs, memo, pc, args, main, ffm, probe>>

TwinStep ==
    /\ twin # None
    /\ twin.f.phase \in {"pass1", "pass2", "pass3"}
    /\ \E order \in StepOrders(twin.f) :
          twin' = [twin EXCEPT !.f = FfmStep(twin.c, twin.f, order)]
    /\ UNCHANGED <<inputs, memo, pc, args, main, ffm, probe>>

NextTwin ==
    \/ Next
    \/ TwinStart
    \/ TwinStep

SpecTwin == Init /\ [][NextTwin]_vars

(***************************************************************************)
(* fuzzy_score on its own: one call on a pair of names.                    *)
(***************************************************************************)
\* the names of the lists of inputs, two words one letter apart and a name
\* whose fuzzy key is empty
ScoreNames == SfNames \cup SpNames \cup {"abcd", "abce", "Draft v3.pdf"}

NoFile == [header |-> <<>>, lines |-> <<>>]

InitScore ==
    /\ memo = NoResults
    /\ argv = [fuzzy |-> FALSE, case_sensitive |-> FALSE, fuzzy_threshold |-> None]
    /\ sf_csv = NoFile
    /\ sp_csv = NoFile
    /\ pc = "score"
    /\ args = None
    /\ main = MainInit
    /\ ffm = None
    /\ twin = None
    /\ probe \in [a : ScoreNames, b : ScoreNames]

\* score = fuzzy_score(a, b)
ScoreStep ==
    /\ pc = "score"
    /\ probe' = [a |-> probe.a, b |-> probe.b, score |-> fuzzy_score(probe.a, probe.b)]
    /\ pc' = "scored"
    /\ UNCHANGED <<inputs, memo, args, main, ffm, twin>>

NextScore == ScoreStep

SpecScore == InitScore /\ [][NextScore]_vars

(***************************************************************************)
(* Properties.                                                             *)
(***************************************************************************)
\* the keys of one side of the pairs
RowKeys(rows, side) == {rows[i][side] : i \in DOMAIN rows}

\* the pairs with their methods
Pairs(rows) ==
    {<<rows[i]["sf_key"], rows[i]["sp_key"], rows[i]["Match_Method"]>> : i \in DOMAIN rows}

\* the pairs found so far by the call in progress, or by the finished run
RowsSoFar == IF ffm # None THEN ffm.f.fuzzy_rows ELSE main.fuzzy_match_rows

PairwiseDisjoint(A, B, C) == A \cap B = {} /\ A \cap C = {} /\ B \cap C = {}

\* two codenames, and not the same one
Differ(p, q) == p # NoCodename /\ q # NoCodename /\ p # q

\* one codename for both
Shared(p, q) == p # NoCodename /\ p = q

IsCrossRef(method) == Len(method) >= 13 /\ SubSeq(method, 1, 13) = "opp_name_xref"

\* the bar of the pass with the method tag method, for the threshold t
BarOf(method, t) ==
    IF IsCrossRef(method) THEN (IF t - 10 > 60 THEN t - 10 ELSE 60) ELSE t

\* C1: when a run is complete, the left exact keys are the disjoint union of
\* the exact matches, the left keys of the fuzzy pairs and only_salesforce, and
\* the right exact keys are the disjoint union of the exact matches, the
\* right keys of the fuzzy pairs and only_sharepoint
C1_PartitionComplete ==
    pc = "done" =>
        /\ main.sf_keys = main.in_both_exact
                            \cup RowKeys(main.fuzzy_match_rows, "sf_key")
                            \cup main.only_salesforce
        /\ PairwiseDisjoint(main.in_both_exact, RowKeys(main.fuzzy_match_rows, "sf_key"),
                            main.only_salesforce)
        /\ main.sp_keys = main.in_both_exact
                            \cup RowKeys(main.fuzzy_match_rows, "sp_key")
                            \cup main.only_sharepoint
        /\ PairwiseDisjoint(main.in_both_exact, RowKeys(main.fuzzy_match_rows, "sp_key"),
                            main.only_sharepoint)

\* a complete run with an exact match, a fuzzy pair and a key left on each side
C1_Witness ==
    /\ pc = "done"
    /\ main.in_both_exact # {}
    /\ main.fuzzy_match_rows # <<>>
    /\ main.only_salesforce # {}
    /\ main.only_sharepoint # {}

\* C2: at every point of find_fuzzy_matches no left key and no right key is
\* in two pairs, the number of pairs is the size of sf_matched and of
\* sp_matched, and no key still to be visited by the loop is matched
C2_OneToOne ==
    ffm # None =>
        /\ \A i, j \in DOMAIN ffm.f.fuzzy_rows :
              i # j => /\ ffm.f.fuzzy_rows[i]["sf_key"] # ffm.f.fuzzy_rows[j]["sf_key"]
                       /\ ffm.f.fuzzy_rows[i]["sp_key"] # ffm.f.fuzzy_rows[j]["sp_key"]
        /\ RowKeys(ffm.f.fuzzy_rows, "sf_key") = ffm.f.sf_matched
        /\ RowKeys(ffm.f.fuzzy_rows, "sp_key") = ffm.f.sp_matched
        /\ Len(ffm.f.fuzzy_rows) = Cardinality(ffm.f.sf_matched)
        /\ Len(ffm.f.fuzzy_rows) = Cardinality(ffm.f.sp_matched)
        /\ SeqToSet(ffm.f.queue) \cap ffm.f.sf_matched = {}

\* a right key is matched, and a left key of the same codename that is still
\* to be visited scores above the threshold against it
C2_Witness ==
    /\ ffm # None
    /\ \E i \in DOMAIN ffm.f.fuzzy_rows : \E k \in SeqToSet(ffm.f.queue) :
          /\ Shared(Codename(k), Codename(ffm.f.fuzzy_rows[i]["sp_key"]))
          /\ Score(k, ffm.f.fuzzy_rows[i]["sp_key"]) >= ffm.c.threshold

\* C3: a second run on the same inputs with the same threshold and flags
\* gives the same pairs, with the same methods, and the same matched sets,
\* whatever the orders in which the two runs iterate their sets
C3_Deterministic ==
    (/\ pc = "done"
     /\ twin # None
     /\ twin.f.phase = "returned"
     /\ twin.c.threshold = args.fuzzy_threshold)
        => /\ Pairs(twin.f.fuzzy_rows) = Pairs(main.fuzzy_match_rows)
           /\ twin.f.sf_matched = main.sf_fuzzy_matched
           /\ twin.f.sp_matched = main.sp_fuzzy_matched

\* C4: a run with a higher threshold, both in 0..100, finds at most as many
\* pairs as the run with the lower one
C4_ThresholdMonotone ==
    (/\ pc = "done"
     /\ twin # None
     /\ twin.f.phase = "returned"
     /\ args.fuzzy_threshold \in 0..100
     /\ twin.c.threshold \in 0..100
     /\ args.fuzzy_threshold < twin.c.threshold)
        => Len(twin.f.fuzzy_rows) <= Len(main.fuzzy_match_rows)

\* C5: no pair, in any pass, joins a left key and a right key that both have
\* a codename when the codenames differ
C5_CrossProjectGuard ==
    \A i \in DOMAIN RowsSoFar :
        ~Differ(Codename(RowsSoFar[i]["sf_key"]), Codename(RowsSoFar[i]["sp_key"]))

\* a complete run with a threshold in 0..100 that left two keys of different
\* codenames unmatched although they share a token and score at least the
\* threshold
C5_Witness ==
    /\ pc = "done"
    /\ args.fuzzy
    /\ args.fuzzy_threshold \in 0..100
    /\ \E l \in main.only_salesforce, r \in main.only_sharepoint :
          /\ Differ(Codename(l), Codename(r))
          /\ Tokens(l) \cap Tokens(r) # {}
          /\ Score(l, r) >= args.fuzzy_threshold

\* every pair has at least the score of the bar of the pass that found it, and
\* the score of a pair of the first two passes is the score of its keys
ScoresAboveBar ==
    \A i \in DOMAIN RowsSoFar :
        /\ RowsSoFar[i]["Match_Score"] >=
               BarOf(RowsSoFar[i]["Match_Method"], args.fuzzy_threshold)
        /\ ~IsCrossRef(RowsSoFar[i]["Match_Method"])
              => RowsSoFar[i]["Match_Score"] =
                     Score(RowsSoFar[i]["sf_key"], RowsSoFar[i]["sp_key"])

\* the unmatched keys of the exact pass that share a codename and score below
\* the threshold
LowPairs ==
    {p \in (main.sf_keys \ main.in_both_exact) \X (main.sp_keys \ main.in_both_exact) :
        Shared(Codename(p[1]), Codename(p[2])) /\ Score(p[1], p[2]) < args.fuzzy_threshold}

\* C6: every pair has at least the score of the bar of its pass (the
\* threshold; max(threshold - 10, 60) for the cross-reference pass), and a
\* left key and a right key that share a codename and score below the
\* threshold are not a pair
C6_NoLowConfidenceMatch ==
    /\ pc \in {"pass1", "pass2", "pass3", "done"} /\ args.fuzzy => ScoresAboveBar
    /\ pc = "done" /\ args.fuzzy =>
          \A p \in LowPairs : \A i \in DOMAIN main.fuzzy_match_rows :
              ~(/\ main.fuzzy_match_rows[i]["sf_key"] = p[1]
                /\ main.fuzzy_match_rows[i]["sp_key"] = p[2])

\* a complete run that left unmatched two keys that share a codename and
\* score below the threshold, but above zero
C6_Witness ==
    /\ pc = "done"
    /\ args.fuzzy
    /\ \E p \in LowPairs :
          /\ Score(p[1], p[2]) > 0
          /\ p[1] \in main.only_salesforce
          /\ p[2] \in main.only_sharepoint

\* C6 as stated: every pair has at least the score of the bar of its pass,
\* and a left key and a right key that share a codename and score below the
\* bar both end unmatched
C6_LowPairsEndUnmatched ==
    /\ pc \in {"pass1", "pass2", "pass3", "done"} /\ args.fuzzy => ScoresAboveBar
    /\ pc = "done" /\ args.fuzzy =>
          \A p \in LowPairs : p[1] \in main.only_salesforce /\ p[2] \in main.only_sharepoint

\* C7: a run whose --fuzzy-threshold is a number outside 0..100 stops at
\* entry: it never gets past the parsing of its arguments
C7_ThresholdValidated ==
    (/\ argv.fuzzy_threshold # None
     /\ IsIntLiteral(argv.fuzzy_threshold.s)
     /\ IntOfStr(argv.fuzzy_threshold.s) \notin 0..100)
        => /\ pc \in {"start", "exit"}
           /\ ffm = None

\* C8: find_fuzzy_matches never raises, whatever the rows hold
C8_NeverRaises == pc # "raised"

\* 2 * |n * q - p| <= q: n is an integer nearest to p / q
Nearest(n, p, q) ==
    /\ 2 * (n * q - p) <= q
    /\ 2 * (p - n * q) <= q

\* score is an integer nearest to 100 * (0.6 * seq + 0.4 * jac) for the ratios
\* seq and jac, each a pair <<numerator, denominator>>
IsRounded(score, seq, jac) ==
    Nearest(score, 60 * seq[1] * jac[2] + 40 * jac[1] * seq[2], seq[2] * jac[2])

IsRoundedFor(score, norm_a, norm_b) ==
    IsRounded(score, SequenceRatio(norm_a, norm_b),
              Jaccard(SeqToSet(StrSplit(norm_a)), SeqToSet(StrSplit(norm_b))))

\* C9: for two names with non-empty fuzzy keys, fuzzy_score returns the
\* weighted value 100 * (0.6 * ratio + 0.4 * jaccard) rounded to the nearest
\* integer, and the result is in 0..100
C9_ScoreIsRounded ==
    (/\ pc = "scored"
     /\ normalize_for_fuzzy(probe.a) # ""
     /\ normalize_for_fuzzy(probe.b) # "")
        => /\ probe.score \in 0..100
           /\ IsRoundedFor(probe.score, normalize_for_fuzzy(probe.a),
                           normalize_for_fuzzy(probe.b))

\* the names of the scenario
EagleLeft == "Project Eagle CIM (HIG) 2024.pdf"

EagleRight == "Eagle_CIM_Final.docx"

\* a complete run with --fuzzy and the default threshold on the two names
EagleRun ==
    /\ pc = "done"
    /\ args.fuzzy
    /\ argv.fuzzy_threshold = None
    /\ main.sf_keys = ExactKeys({EagleLeft}, args.case_sensitive)
    /\ main.sp_keys = ExactKeys({EagleRight}, args.case_sensitive)

\* C10: in the run on the two names with --fuzzy and the default threshold,
\* the left name has the codename "eagle" and the right name has none, no
\* pass finds a pair, and both names end unmatched
C10_EagleScenario ==
    EagleRun =>
        /\ args.fuzzy_threshold = 70
        /\ Codename(EagleLeft) = "eagle"
        /\ Codename(EagleRight) = NoCodename
        /\ main.fuzzy_match_rows = <<>>
        /\ main.only_salesforce = main.sf_keys
        /\ main.only_sharepoint = main.sp_keys

C10_Witness == EagleRun /\ Score(EagleLeft, EagleRight) < args.fuzzy_threshold

\* C10 as stated: both names have the codename "eagle", the codename pass
\* finds the pair, and neither name ends unmatched
C10_EagleCodenameMatch ==
    EagleRun =>
        /\ Codename(EagleLeft) = "eagle"
        /\ Codename(EagleRight) = "eagle"
        /\ \E i \in DOMAIN main.fuzzy_match_rows :
              main.fuzzy_match_rows[i]["Match_Method"] = "project_name"
        /\ main.only_salesforce = {}
        /\ main.only_sharepoint = {}

\* the left key the loop of the pass in progress visits next
NextLeft == Head(ffm.f.queue)

\* the right keys not yet matched that have the codename of the left key k
SameCodename(k) ==
    {r \in ffm.c.sp_unmatched \ ffm.f.sp_matched : Shared(Codename(k), Codename(r))}

\* the highest score of the left key k against the right keys S
HighestScore(k, S) == SetMax({Score(k, r) : r \in S})

\* the step leaves the matched sets and the pairs as they are
NothingCommitted ==
    /\ ffm'.f.sf_matched = ffm.f.sf_matched
    /\ ffm'.f.sp_matched = ffm.f.sp_matched
    /\ ffm'.f.fuzzy_rows = ffm.f.fuzzy_rows

\* the step adds the pair of k and r, with the score and the method given, to
\* the pairs and both keys to the matched sets
Committed(k, r, score, method) ==
    /\ ffm'.f.sf_matched = ffm.f.sf_matched \cup {k}
    /\ ffm'.f.sp_matched = ffm.f.sp_matched \cup {r}
    /\ Len(ffm'.f.fuzzy_rows) = Len(ffm.f.fuzzy_rows) + 1
    /\ SubSeq(ffm'.f.fuzzy_rows, 1, Len(ffm.f.fuzzy_rows)) = ffm.f.fuzzy_rows
    /\ ffm'.f.fuzzy_rows[Len(ffm'.f.fuzzy_rows)]["sf_key"] = k
    /\ ffm'.f.fuzzy_rows[Len(ffm'.f.fuzzy_rows)]["sp_key"] = r
    /\ ffm'.f.fuzzy_rows[Len(ffm'.f.fuzzy_rows)]["Match_Score"] = score
    /\ ffm'.f.fuzzy_rows[Len(ffm'.f.fuzzy_rows)]["Match_Method"] = method

\* the rule of the codename pass for the left key k and the threshold t
CodenameRule(k, t) ==
    IF SameCodename(k) # {} /\ HighestScore(k, SameCodename(k)) >= t
    THEN \E r \in SameCodename(k) :
            /\ Score(k, r) = HighestScore(k, SameCodename(k))
            /\ Committed(k, r, Score(k, r), "project_name")
    ELSE NothingCommitted

\* C11: with a threshold in 0..100, every step of the loop of the codename
\* pass takes the least left key not yet visited; the pair of this key and a
\* highest-scoring right key not yet matched of the same codename is committed
\* if and only if that score is at least the threshold, and both keys are
\* then matched; otherwise nothing is committed
C11_CodenamePassRule ==
    [][(/\ pc = "pass1"
        /\ ffm.f.queue # <<>>
        /\ ffm.c.threshold \in 0..100)
          => /\ \A k \in SeqToSet(Tail(ffm.f.queue)) : StrLess(NextLeft, k)
             /\ ffm'.f.queue = Tail(ffm.f.queue)
             /\ CodenameRule(NextLeft, ffm.c.threshold)]_vars

\* the auxiliary field of the first record of the left key k, for the records
\* by_name and the display names orig
AuxOf(by_name, orig, k) == DictGet(FirstRow(by_name, DictGet(orig, k, k)), "Opp Name", Txt(""))

\* the codename of the auxiliary field aux, none for a field without a value
AuxCodename(aux) == IF aux = None THEN NoCodename ELSE Codename(aux.s)

\* the higher of the score of the keys and the score of the key prefixed with
\* the codename p
CrossRefScore(k, r, p) ==
    IF Score(k, r) >= Score(AltName(p, k), r) THEN Score(k, r) ELSE Score(AltName(p, k), r)

\* a pair the third pass may commit in this state: the left key k is not
\* matched and has no codename, its auxiliary field has the codename p, and the
\* right key r is not matched and has the codename p
CrossRefEligible(k, r, p) ==
    /\ k \in ffm.c.sf_unmatched \ ffm.f.sf_matched
    /\ Codename(k) = NoCodename
    /\ p # NoCodename
    /\ r \in ffm.c.sp_unmatched \ ffm.f.sp_matched
    /\ Codename(r) = p

\* the step commits a pair of the left key k that the third pass may commit
CrossRefCommitted(k, p) ==
    \E r \in ffm.c.sp_unmatched :
        /\ CrossRefEligible(k, r, p)
        /\ Committed(k, r, CrossRefScore(k, r, p),
                     "opp_name_xref (Project " \o StrTitle(p) \o ")")

\* C12: every step of the loop of the third pass commits nothing, or a pair
\* whose left key was unmatched and has no codename in its own name, whose
\* first record's auxiliary field has a codename, and whose right key was
\* unmatched and has that codename, with the higher of the raw score and
\* the prefixed score as its score; a left key with a codename in its own
\* name is never matched by this pass
C12_CrossRefEligibility ==
    [][(pc = "pass3" /\ ffm.f.queue # <<>>)
          => /\ \/ NothingCommitted
                \/ CrossRefCommitted(NextLeft,
                       AuxCodename(AuxOf(ffm.c.sf_by_name, ffm.f.sf_orig, NextLeft)))
             /\ Codename(NextLeft) # NoCodename => NothingCommitted]_vars

\* the left keys that end unmatched although their auxiliary field has the
\* codename of a right key that ends unmatched and the pair's score is at
\* least the bar of the third pass: keys with a codename in their own name
CrossRefRefused ==
    {k \in main.only_salesforce :
        \E r \in main.only_sharepoint :
            /\ Codename(k) # NoCodename
            /\ Shared(Codename(r),
                      AuxCodename(AuxOf(main.sf_by_name,
                                        OrigNames(main.sf_by_name, args.case_sensitive), k)))
            /\ CrossRefScore(k, r, Codename(r)) >= BarOf("opp_name_xref", args.fuzzy_threshold)}

\* a complete run in which the third pass has committed a pair and has left
\* out a left key with a codename in its own name
C12_Witness ==
    /\ pc = "done"
    /\ args.fuzzy
    /\ \E i \in DOMAIN main.fuzzy_match_rows :
          IsCrossRef(main.fuzzy_match_rows[i]["Match_Method"])
    /\ CrossRefRefused # {}

\* the left key l and the right key r are candidates for each other in the
\* first two passes: one codename for both, or a common significant token and
\* not two different codenames
EligibleEarly(l, r) ==
    \/ Shared(Codename(l), Codename(r))
    \/ Tokens(l) \cap Tokens(r) # {} /\ ~Differ(Codename(l), Codename(r))

\* C13: when a run with a threshold of 1 or more has returned from
\* find_fuzzy_matches, no left key and right key that are both unmatched were
\* candidates for each other in the first two passes with a score of at
\* least the threshold
C13_NoBlockingPair ==
    (pc = "done" /\ args.fuzzy /\ args.fuzzy_threshold >= 1)
        => \A l \in main.only_salesforce, r \in main.only_sharepoint :
              ~(EligibleEarly(l, r) /\ Score(l, r) >= args.fuzzy_threshold)

\* a complete run that leaves a right key unmatched although a left key that
\* was a candidate for it scores at least the threshold: the left key is
\* matched to another right key
C13_Witness ==
    /\ pc = "done"
    /\ args.fuzzy
    /\ args.fuzzy_threshold >= 1
    /\ \E l \in main.sf_fuzzy_matched, r \in main.only_sharepoint :
          EligibleEarly(l, r) /\ Score(l, r) >= args.fuzzy_threshold

====
